---- MODULE Spec2Model ----
(***************************************************************************)
(* State-machine model of the OctoPrint REST client                        *)
(* (custom_components/octoprint_hass/octoprint_rest_api.py).               *)
(*                                                                         *)
(* The client object has three mutable fields (api_key, headers,           *)
(* connected).  get_api_key is a coroutine without any await, so it runs   *)
(* to completion once started; it is modelled step by step (pc) because    *)
(* the order of its requests and sleeps matters.  Every HTTP exchange      *)
(* draws the server's answer (a status with a body, or a transport         *)
(* exception) from a small set.  log, result and pre are history           *)
(* variables: the requests and sleeps of the current/last call, what the   *)
(* last call returned or raised, and the fields as they were when it       *)
(* started.                                                                *)
(***************************************************************************)
EXTENDS Integers, Sequences, FiniteSets, TLC

VARIABLES api_key, headers, connected, pc, response, app_token, log, result, pre

vars == <<api_key, headers, connected, pc, response, app_token, log, result, pre>>

\* ------------------------------------------------------------------ bounds
\* log keeps the first MaxLog events of a call; later events are dropped so
\* that an endless poll loop stays a finite-state behaviour.
MaxLog == 9

\* ------------------------------------------------------------ value spaces
None == "None"
Missing == "Missing"
Keys == {"k1", "k2"}
Tokens == {"t1"}
Statuses == {200, 201, 202, 204, 404, 500}
Excs == {"ReadTimeout", "ConnectionError"}
ReadPaths == {"api/version", "api/printer", "api/job"}

Resp(s, b) == [exc |-> "none", status |-> s, body |-> b]
Fail(e) == [exc |-> e, status |-> 0, body |-> Missing]
NoResp == [exc |-> "none", status |-> 0, body |-> Missing]

\* Bodies the server can attach: a 201 to the token request carries an
\* app_token, a 200 to a poll carries an api_key; either may be absent
\* (the subscript in response.json()[...] then raises KeyError).
BodiesFor(kind, s) ==
    IF kind = "request" /\ s = 201 THEN Tokens \cup {Missing}
    ELSE IF kind = "poll" /\ s = 200 THEN Keys \cup {Missing}
    ELSE {Missing}

Outcomes(kind) ==
    {Fail(e) : e \in Excs}
    \cup UNION {{Resp(s, b) : b \in BodiesFor(kind, s)} : s \in Statuses}

Event(kind, r) == [kind |-> kind, exc |-> r.exc, status |-> r.status, body |-> r.body]

Record(l, e) == IF Len(l) < MaxLog THEN Append(l, e) ELSE l

Snapshot == [api_key |-> api_key, headers |-> headers, connected |-> connected]

\* ------------------------------------------------------- pieces of the code
InitConnected == FALSE

HeadersForMut(key) == {}
HeadersFor(key) == {<<"X-Api-Key", key>>}

ProbeOkMut(status) == status \in {200, 204}
ProbeOk(status) == status = 204

TokenOk(status) == status = 201

WhileCondMut(status) == status \notin {200, 404}
WhileCond(status) == status = 202

Is200Mut(status) == status = 201
Is200(status) == status = 200

Is404(status) == status = 404

RevokeOkMut(status) == status \in {200, 204}
RevokeOk(status) == status = 204

CanCommandMut(conn) == TRUE
CanCommand(conn) == conn

\* ------------------------------------------------------------------- Init
Init ==
    /\ api_key = None
    /\ headers = {}
    /\ connected = InitConnected
    /\ pc = "idle"
    /\ response = NoResp
    /\ app_token = None
    /\ log = << >>
    /\ result = [op |-> "__init__", ret |-> "None"]
    /\ pre = [api_key |-> None, headers |-> {}, connected |-> InitConnected]

\* A call that ends: its locals vanish and the outcome is recorded.
Return(op, ret) ==
    /\ pc' = "idle"
    /\ response' = NoResp
    /\ app_token' = None
    /\ result' = [op |-> op, ret |-> ret]

\* ------------------------------------------------------------ _set_api_key
_set_api_key ==
    /\ pc = "idle"
    /\ \E key \in Keys :
        /\ api_key' = key
        /\ headers' = HeadersFor(key)
    /\ pre' = Snapshot
    /\ log' = << >>
    /\ Return("_set_api_key", "True")
    /\ UNCHANGED connected

\* ------------------------------------------------------------- get_api_key
get_api_key_call ==
    /\ pc = "idle"
    /\ pc' = "probe"
    /\ pre' = Snapshot
    /\ log' = << >>
    /\ result' = [op |-> "get_api_key", ret |-> "running"]
    /\ UNCHANGED <<api_key, headers, connected, response, app_token>>

get_api_key_probe ==
    /\ pc = "probe"
    /\ \E r \in Outcomes("probe") :
        /\ log' = Record(log, Event("probe", r))
        /\ IF r.exc # "none"
           THEN /\ Return("get_api_key", "raise " \o r.exc)
           ELSE IF ProbeOk(r.status)
           THEN /\ pc' = "request"
                /\ response' = r
                /\ UNCHANGED <<app_token, result>>
           ELSE /\ Return("get_api_key", "raise Exception(no appkeys plugin)")
    /\ UNCHANGED <<api_key, headers, connected, pre>>

get_api_key_request ==
    /\ pc = "request"
    /\ \E r \in Outcomes("request") :
        /\ log' = Record(log, Event("request", r))
        /\ IF r.exc # "none"
           THEN /\ Return("get_api_key", "raise " \o r.exc)
           ELSE IF TokenOk(r.status)
           THEN IF r.body = Missing
                THEN /\ Return("get_api_key", "raise KeyError")
                ELSE /\ pc' = "first_poll"
                     /\ response' = r
                     /\ app_token' = r.body
                     /\ UNCHANGED result
           ELSE /\ Return("get_api_key", "raise Exception(User not created)")
    /\ UNCHANGED <<api_key, headers, connected, pre>>

get_api_key_first_poll ==
    /\ pc = "first_poll"
    /\ \E r \in Outcomes("poll") :
        /\ log' = Record(log, Event("poll", r))
        /\ IF r.exc # "none"
           THEN /\ Return("get_api_key", "raise " \o r.exc)
           ELSE /\ pc' = "while"
                /\ response' = r
                /\ UNCHANGED <<app_token, result>>
    /\ UNCHANGED <<api_key, headers, connected, pre>>

get_api_key_while ==
    /\ pc = "while"
    /\ IF WhileCond(response.status)
       THEN /\ pc' = "loop_get"
            /\ UNCHANGED <<response, app_token, result>>
       ELSE /\ Return("get_api_key", "False")
    /\ UNCHANGED <<api_key, headers, connected, log, pre>>

get_api_key_loop_get ==
    /\ pc = "loop_get"
    /\ \E r \in Outcomes("poll") :
        /\ log' = Record(log, Event("poll", r))
        /\ IF r.exc # "none"
           THEN /\ Return("get_api_key", "raise " \o r.exc)
           ELSE /\ pc' = "loop_sleep"
                /\ response' = r
                /\ UNCHANGED <<app_token, result>>
    /\ UNCHANGED <<api_key, headers, connected, pre>>

get_api_key_loop_sleep ==
    /\ pc = "loop_sleep"
    /\ log' = Record(log, Event("sleep", NoResp))
    /\ pc' = "loop_if"
    /\ UNCHANGED <<api_key, headers, connected, response, app_token, result, pre>>

get_api_key_loop_if ==
    /\ pc = "loop_if"
    /\ IF Is200(response.status)
       THEN IF response.body = Missing
            THEN /\ Return("get_api_key", "raise KeyError")
                 /\ UNCHANGED <<api_key, headers, connected>>
            ELSE /\ api_key' = response.body
                 /\ headers' = HeadersFor(response.body)
                 /\ connected' = TRUE
                 /\ Return("get_api_key", "True")
       ELSE IF Is404(response.status)
       THEN /\ Return("get_api_key", "raise Exception(User denied access)")
            /\ UNCHANGED <<api_key, headers, connected>>
       ELSE /\ pc' = "while"
            /\ UNCHANGED <<api_key, headers, connected, response, app_token, result>>
    /\ UNCHANGED <<log, pre>>

get_api_key_step ==
    \/ get_api_key_probe
    \/ get_api_key_request
    \/ get_api_key_first_poll
    \/ get_api_key_while
    \/ get_api_key_loop_get
    \/ get_api_key_loop_sleep
    \/ get_api_key_loop_if

\* -------------------------------------------------------------- deregister
deregisterMut ==
    /\ pc = "idle"
    /\ pre' = Snapshot
    /\ IF api_key = None
       THEN /\ log' = << >>
            /\ Return("deregister", "False")
            /\ UNCHANGED connected
       ELSE \E r \in Outcomes("revoke") :
            /\ log' = <<Event("revoke", [r EXCEPT !.body = api_key])>>
            /\ IF r.exc = "ConnectionError"
               THEN /\ Return("deregister", "False")
                    /\ UNCHANGED connected
               ELSE IF r.exc # "none"
               THEN /\ Return("deregister", "raise " \o r.exc)
                    /\ UNCHANGED connected
               ELSE IF RevokeOk(r.status)
               THEN /\ connected' = FALSE
                    /\ Return("deregister", "True")
               ELSE /\ Return("deregister", "False")
                    /\ UNCHANGED connected
    /\ UNCHANGED <<api_key, headers>>

\* The body field of the logged revoke event is the key sent in the JSON
\* payload of the request ("key": self.api_key), None included.
deregister ==
    /\ pc = "idle"
    /\ pre' = Snapshot
    /\ \E r \in Outcomes("revoke") :
        /\ log' = <<Event("revoke", [r EXCEPT !.body = api_key])>>
        /\ IF r.exc = "ConnectionError"
           THEN /\ Return("deregister", "False")
                /\ UNCHANGED connected
           ELSE IF r.exc # "none"
           THEN /\ Return("deregister", "raise " \o r.exc)
                /\ UNCHANGED connected
           ELSE IF RevokeOk(r.status)
           THEN /\ connected' = FALSE
                /\ Return("deregister", "True")
           ELSE /\ Return("deregister", "False")
                /\ UNCHANGED connected
    /\ UNCHANGED <<api_key, headers>>

\* -------------------------------------------------------------- pause_print
pause_print ==
    /\ pc = "idle"
    /\ pre' = Snapshot
    /\ IF CanCommand(connected)
       THEN \E r \in Outcomes("job") :
            /\ log' = <<Event("job", r)>>
            /\ IF r.exc = "ConnectionError"
               THEN Return("pause_print", "False")
               ELSE IF r.exc # "none"
               THEN Return("pause_print", "raise " \o r.exc)
               ELSE Return("pause_print", "Response")
       ELSE /\ log' = << >>
            /\ Return("pause_print", "False")
    /\ UNCHANGED <<api_key, headers, connected>>

\* ------------------------------------------------------------- resume_print
resume_print ==
    /\ pc = "idle"
    /\ pre' = Snapshot
    /\ IF CanCommand(connected)
       THEN \E r \in Outcomes("job") :
            /\ log' = <<Event("job", r)>>
            /\ IF r.exc = "ConnectionError"
               THEN Return("resume_print", "False")
               ELSE IF r.exc # "none"
               THEN Return("resume_print", "raise " \o r.exc)
               ELSE Return("resume_print", "Response")
       ELSE /\ log' = << >>
            /\ Return("resume_print", "False")
    /\ UNCHANGED <<api_key, headers, connected>>

\* --------------------------------------------------------- read operations
\* GET <path>, then .json(): the payload, or False when the body does not
\* parse (ValueError); transport exceptions are not caught.
read ==
    /\ pc = "idle"
    /\ pre' = Snapshot
    /\ \E path \in ReadPaths, r \in Outcomes("read"), parses \in BOOLEAN :
        /\ log' = <<Event(path, r)>>
        /\ IF r.exc # "none"
           THEN Return("read", "raise " \o r.exc)
           ELSE IF parses
           THEN Return("read", "Payload")
           ELSE Return("read", "False")
    /\ UNCHANGED <<api_key, headers, connected>>

set_printer_settings ==
    /\ pc = "idle"
    /\ pre' = Snapshot
    /\ \E r \in Outcomes("settings") :
        /\ log' = <<Event("settings", r)>>
        /\ IF r.exc # "none"
           THEN Return("set_printer_settings", "raise " \o r.exc)
           ELSE Return("set_printer_settings", "Response")
    /\ UNCHANGED <<api_key, headers, connected>>

\* ------------------------------------------------------------------- Next
Next ==
    \/ _set_api_key
    \/ get_api_key_call
    \/ get_api_key_step
    \/ deregister
    \/ pause_print
    \/ resume_print
    \/ read
    \/ set_printer_settings

Spec == Init /\ [][Next]_vars

\* Once called, get_api_key keeps running: every request gets an answer
\* (a response or a transport exception) and the code takes its next step.
LiveSpec == Spec /\ WF_vars(get_api_key_step)

\* ------------------------------------------------------------- properties
Done(op) == pc = "idle" /\ result.op = op

Complete == Len(log) < MaxLog

Polls == SelectSeq(log, LAMBDA e : e.kind = "poll")

Requests == SelectSeq(log, LAMBDA e : e.kind # "sleep")

KindsOf(l) == [i \in 1..Len(l) |-> l[i].kind]

StatusesOf(l) == [i \in 1..Len(l) |-> l[i].status]

Answered(l) == \A i \in 1..Len(l) : l[i].exc = "none"

LastPoll == Polls[Len(Polls)]

Denied == "raise Exception(User denied access)"

Unsupported == "raise Exception(no appkeys plugin)"

\* C1 (as stated): whenever a get_api_key call has ended and its last poll
\* response - the first poll or a later one - had status 200 with an
\* api_key, that key is the stored credential (api_key and X-Api-Key
\* header), connected is true and the call returned True.
C1_AsStated ==
    (Done("get_api_key") /\ Complete /\ Len(Polls) >= 1
        /\ LastPoll.exc = "none" /\ LastPoll.status = 200 /\ LastPoll.body \in Keys)
    => /\ api_key = LastPoll.body
       /\ headers = HeadersFor(LastPoll.body)
       /\ connected
       /\ result.ret = "True"

\* C2 (as stated): whenever a get_api_key call has ended and its last poll
\* response - the first poll or a later one - had status 404, the call
\* raised "User denied access" and api_key, headers and connected are as
\* they were before the call.
C2_AsStated ==
    (Done("get_api_key") /\ Complete /\ Len(Polls) >= 1
        /\ LastPoll.exc = "none" /\ LastPoll.status = 404)
    => /\ result.ret = Denied
       /\ Snapshot = pre

\* C3 (as stated): probe 204, token request 201 and polls answered
\* 202, 202, 200: the call returns True with the key of the final body and
\* exactly 4 requests were made, in the order probe, request, poll, poll.
C3_AsStated ==
    (Done("get_api_key") /\ Complete /\ Answered(Polls)
        /\ StatusesOf(Polls) = <<202, 202, 200>> /\ LastPoll.body \in Keys)
    => /\ result.ret = "True"
       /\ api_key = LastPoll.body
       /\ KindsOf(Requests) = <<"probe", "request", "poll", "poll">>

\* C3 (amended): probe 204, token request 201 and polls answered
\* 202, 202, 200: the call does not end before the third answer, then
\* returns True with the key of the final body stored, and exactly 5
\* requests were made, in the order probe, request, poll, poll, poll.
C3_PollSequence ==
    /\ (result.op = "get_api_key" /\ Answered(Polls)
            /\ StatusesOf(Polls) \in {<<202>>, <<202, 202>>})
       => pc # "idle"
    /\ (Done("get_api_key") /\ Complete /\ Answered(Polls)
            /\ StatusesOf(Polls) = <<202, 202, 200>> /\ LastPoll.body \in Keys)
       => /\ result.ret = "True"
          /\ api_key = LastPoll.body
          /\ headers = HeadersFor(LastPoll.body)
          /\ connected
          /\ KindsOf(Requests) = <<"probe", "request", "poll", "poll", "poll">>
          /\ StatusesOf(Requests) = <<204, 201, 202, 202, 200>>

C3_Witness ==
    /\ Done("get_api_key") /\ Complete /\ Answered(Polls)
    /\ StatusesOf(Polls) = <<202, 202, 200>>
    /\ result.ret = "True"
    /\ api_key = LastPoll.body

\* C4: once the probe has been answered with a status other than 204, the
\* get_api_key call is over: it raised the "no Application Keys plugin"
\* exception, the probe is the only request it made, and api_key, headers
\* and connected are as they were before the call.
C4_ProbeUnsupported ==
    (result.op = "get_api_key" /\ Len(log) >= 1
        /\ log[1].kind = "probe" /\ log[1].exc = "none" /\ log[1].status # 204)
    => /\ pc = "idle"
       /\ result.ret = Unsupported
       /\ Len(log) = 1
       /\ Snapshot = pre

C4_Witness ==
    /\ Done("get_api_key") /\ Len(log) = 1
    /\ log[1].kind = "probe" /\ log[1].exc = "none" /\ log[1].status = 404
    /\ result.ret = Unsupported
    /\ pre.api_key \in Keys

\* C5: deregister changes nothing but connected; connected becomes false
\* and the call returns True exactly when the revoke response has status
\* 204; on any other status and on a refused connection connected is
\* unchanged and the call returns False; api_key and headers never change.
C5_DeregisterFrame ==
    result.op = "deregister"
    => /\ api_key = pre.api_key
       /\ headers = pre.headers
       /\ Len(log) = 1
       /\ LET e == log[1] IN
          /\ (e.exc = "none" /\ e.status = 204)
             => (~connected /\ result.ret = "True")
          /\ (e.exc = "none" /\ e.status # 204)
             => (connected = pre.connected /\ result.ret = "False")
          /\ e.exc = "ConnectionError"
             => (connected = pre.connected /\ result.ret = "False")
          /\ connected # pre.connected
             => (e.exc = "none" /\ e.status = 204 /\ ~connected)
          /\ result.ret = "True" => (e.exc = "none" /\ e.status = 204)

C5_Witness ==
    /\ result.op = "deregister"
    /\ pre.connected /\ ~connected
    /\ api_key \in Keys
    /\ result.ret = "True"

\* C6: pause_print and resume_print called while connected is false return
\* False without issuing any request; a POST to api/job appears only in a
\* call that started (and ended) with connected true.
C6_CommandsNeedConnection ==
    /\ (result.op \in {"pause_print", "resume_print"} /\ ~pre.connected)
       => (result.ret = "False" /\ log = << >>)
    /\ \A i \in 1..Len(log) :
          log[i].kind = "job" => (pre.connected /\ connected)

C6_Witness ==
    /\ result.op = "pause_print"
    /\ ~pre.connected
    /\ pre.api_key \in Keys
    /\ result.ret = "False"
    /\ log = << >>

C8_AsStated ==
    (result.op = "deregister" /\ pre.api_key = None)
    => (log = << >> /\ result.ret = "False")

\* C8 (amended): deregister issues the revoke POST whether or not a key is
\* present: called while api_key is None it still makes exactly one request,
\* a revoke whose key field is None, and returns True exactly when the
\* response status is 204.
C8_RevokeUnguarded ==
    (result.op = "deregister" /\ pre.api_key = None)
    => /\ Len(log) = 1
       /\ log[1].kind = "revoke"
       /\ log[1].body = None
       /\ (result.ret = "True") <=> (log[1].exc = "none" /\ log[1].status = 204)

C8_Witness ==
    /\ result.op = "deregister"
    /\ pre.api_key = None
    /\ Len(log) = 1
    /\ log[1].kind = "revoke"
    /\ log[1].status = 204
    /\ result.ret = "True"

\* C9 (as stated): in the events of a get_api_key call no two poll GETs
\* are adjacent (a wait separates them), and every wait comes directly
\* after a poll response with status 202 (none after a terminal response).
C9_AsStated ==
    result.op = "get_api_key"
    => /\ \A i \in 1..(Len(log) - 1) :
             ~(log[i].kind = "poll" /\ log[i + 1].kind = "poll")
       /\ \A i \in 1..Len(log) :
             log[i].kind = "sleep"
             => (i > 1 /\ log[i - 1].kind = "poll" /\ log[i - 1].status = 202)

Pending202 == pc = "while" /\ response.status = 202

\* C10: a get_api_key call whose polling ended on an answered status other
\* than 200, 202 and 404 returned False with api_key, headers and connected
\* untouched; and in every behaviour either polls are answered 202
\* infinitely often or the client is idle again and again (every call
\* terminates unless the server answers 202 forever).
C10_Termination ==
    /\ []((Done("get_api_key") /\ Complete /\ Len(Polls) >= 1
            /\ LastPoll.exc = "none" /\ LastPoll.status \notin {200, 202, 404})
          => (result.ret = "False" /\ Snapshot = pre))
    /\ ([]<>Pending202 \/ []<>(pc = "idle"))

C10_Witness ==
    /\ Done("get_api_key") /\ Complete
    /\ Len(Polls) = 3
    /\ StatusesOf(Polls) = <<202, 202, 500>>
    /\ result.ret = "False"
    /\ Snapshot = pre

====
